---- MODULE Spec2Model ----
(***************************************************************************)
(* TextExporter of webtoon_downloader/core/webtoon/exporter.py.            *)
(*                                                                         *)
(* Strings are sequences of characters.  A file is a sequence of the units *)
(* written to it: characters for the text files, JSON tokens (each one a   *)
(* sequence of characters) for info.json.  A path is a record of the       *)
(* parent directory and the file name.                                     *)
(***************************************************************************)
EXTENDS Integers, Sequences, FiniteSets, TLC

VARIABLES
    export_format,  \* TextExporter.export_format
    write_json,     \* TextExporter._write_json
    write_text,     \* TextExporter._write_text
    data,           \* TextExporter._data: [chapters, summary]
    dirs,           \* the directories that exist on disk
    fs,             \* the files on disk: path -> content
    tasks,          \* the coroutines in flight (concurrent use only)
    last,           \* history: the call that was made last, and how it ended
    expChapters,    \* history: number -> the record of the last add of it
    expSummary,     \* history: the last non-empty summary supplied
    seen,           \* history: the aggregate states that have existed
    issued,         \* history: the <<number, record>> of every add made
    nCalls          \* history: the number of calls made so far

vars == <<export_format, write_json, write_text, data, dirs, fs, tasks, last,
          expChapters, expSummary, seen, issued, nCalls>>

----------------------------------------------------------------------------
(* Bounds and input sets *)

MaxCalls == 3
MaxFailCalls == 2
MaxConcCalls == 3
MaxTasks == 2
MaxPartial == 1

Formats == {"text", "json", "all"}
ChapterNumbers == {2, 10}
Titles == {<<"T">>, <<"U", "V">>}
NotesTexts == {<<>>, <<"a">>, <<"b">>}
None == <<"None">>
Summaries == {None, <<>>, <<"s">>, <<"r">>}
Paddings == {0, 3}
NoDir == "None"
Dest == "dest"
Directories == {NoDir, "alt"}
ChapterDirectories == {NoDir}

----------------------------------------------------------------------------
(* Python's truthiness, str(int) and the format spec 0{padding}d *)

Falsy(s) == s = None \/ Len(s) = 0

DigitChar(d) == <<"0", "1", "2", "3", "4", "5", "6", "7", "8", "9">>[d + 1]

RECURSIVE Str(_)
Str(n) == IF n < 10 THEN <<DigitChar(n)>>
          ELSE Str(n \div 10) \o <<DigitChar(n % 10)>>

RECURSIVE Zeros(_)
Zeros(k) == IF k <= 0 THEN <<>> ELSE <<"0">> \o Zeros(k - 1)

FormatNumber(n, padding) == Zeros(padding - Len(Str(n))) \o Str(n)

ResolveDir(directory) == IF directory = NoDir THEN Dest ELSE directory

PathOf(dir, name) == [dir |-> dir, name |-> name]

SummaryPath(directory) == PathOf(ResolveDir(directory), <<"summary.txt">>)

TitlePath(directory, number, padding) ==
    PathOf(ResolveDir(directory), FormatNumber(number, padding) \o <<"_title.txt">>)

NotesPath(directory, number, padding) ==
    PathOf(ResolveDir(directory), FormatNumber(number, padding) \o <<"_notes.txt">>)

InfoPath(directory) == PathOf(ResolveDir(directory), <<"info.json">>)

----------------------------------------------------------------------------
(* json.dumps(self._data, sort_keys=True, indent=4), as a token sequence.  *)
(* sort_keys sorts the items by the dict's own keys (the integers) before  *)
(* the keys are turned into strings.  Whitespace is left out.              *)

Quote(s) == <<"\"">> \o s \o <<"\"">>
Unquote(t) == IF Len(t) >= 2 THEN SubSeq(t, 2, Len(t) - 1) ELSE <<>>

RECURSIVE SortedKeys(_)
SortedKeys(S) ==
    IF S = {} THEN <<>>
    ELSE LET m == CHOOSE x \in S : \A y \in S : x <= y
         IN <<m>> \o SortedKeys(S \ {m})

ChapterTokens(k, rec) ==
    << Quote(Str(k)), <<":">>, <<"{">>,
       Quote(<<"notes">>), <<":">>, Quote(rec.notes), <<",">>,
       Quote(<<"title">>), <<":">>, Quote(rec.title), <<"}">> >>

RECURSIVE ChaptersTokens(_, _)
ChaptersTokens(chapters, keys) ==
    IF Len(keys) = 0 THEN <<>>
    ELSE ChapterTokens(Head(keys), chapters[Head(keys)])
         \o (IF Len(keys) > 1 THEN << <<",">> >> ELSE <<>>)
         \o ChaptersTokens(chapters, Tail(keys))

Dumps(d) ==
    << <<"{">>, Quote(<<"chapters">>), <<":">>, <<"{">> >>
    \o ChaptersTokens(d.chapters, SortedKeys(DOMAIN d.chapters))
    \o << <<"}">>, <<",">>, Quote(<<"summary">>), <<":">>, Quote(d.summary), <<"}">> >>

(* A JSON parser for documents of that shape (what json.loads gives back):  *)
(* the object keys are strings.                                             *)

EntryWidth == 12
FrameWidth == 10

NumEntries(doc) == IF Len(doc) <= FrameWidth THEN 0
                   ELSE (Len(doc) - FrameWidth + 1) \div EntryWidth

EntryAt(i) == 5 + EntryWidth * (i - 1)

WellFormed(doc) ==
    /\ Len(doc) >= FrameWidth
    /\ Len(doc) > FrameWidth => (Len(doc) - FrameWidth + 1) % EntryWidth = 0
    /\ doc[1] = <<"{">>
    /\ doc[2] = Quote(<<"chapters">>)
    /\ doc[4] = <<"{">>
    /\ doc[Len(doc) - 3] = Quote(<<"summary">>)
    /\ doc[Len(doc)] = <<"}">>
    /\ \A i \in 1..NumEntries(doc) :
          /\ doc[EntryAt(i) + 3] = Quote(<<"notes">>)
          /\ doc[EntryAt(i) + 7] = Quote(<<"title">>)
          /\ doc[EntryAt(i) + 10] = <<"}">>

LoadsChapters(doc) ==
    { <<Unquote(doc[EntryAt(i)]),
        [title |-> Unquote(doc[EntryAt(i) + 9]), notes |-> Unquote(doc[EntryAt(i) + 5])]>> :
      i \in 1..NumEntries(doc) }

LoadsSummary(doc) == Unquote(doc[Len(doc) - 1])

----------------------------------------------------------------------------
(* _aio_write *)

NoFault == [kind |-> "none", n |-> 0]
Faults == {NoFault, [kind |-> "mkdir", n |-> 0], [kind |-> "open", n |-> 0]}
          \cup {[kind |-> "write", n |-> k] : k \in 0..MaxPartial}

Put(f, target, content) ==
    [p \in DOMAIN f \cup {target} |-> IF p = target THEN content ELSE f[p]]

Prefix(s, n) == SubSeq(s, 1, IF n < Len(s) THEN n ELSE Len(s))

\* open(target, mode): 'w' creates or truncates, 'a' creates or keeps
Opened(f, target, mode) ==
    IF mode = "w" \/ target \notin DOMAIN f THEN Put(f, target, <<>>) ELSE f

\* f.write(text) on a descriptor opened at offset 0 ('w') or in append mode
Written(f, target, mode, text) ==
    LET old == IF target \in DOMAIN f THEN f[target] ELSE <<>>
    IN IF mode = "a" THEN Put(f, target, old \o text)
       ELSE Put(f, target, text \o SubSeq(old, Len(text) + 1, Len(old)))

AppendMode == "a"
DefaultMode == "w"
DefaultEnd == <<"\n">>

AioWriteSwallowing(d, f, target, payload, mode, end, fault) ==
    LET text == payload \o end
        made == d \cup {target.dir}
    IN CASE fault.kind = "mkdir" -> [dirs |-> d, fs |-> f, ok |-> TRUE]
         [] fault.kind = "open" -> [dirs |-> made, fs |-> f, ok |-> TRUE]
         [] fault.kind = "write" ->
              [dirs |-> made,
               fs |-> Written(Opened(f, target, mode), target, mode,
                              Prefix(text, IF fault.n < Len(text) THEN fault.n ELSE Len(text) - 1)),
               ok |-> TRUE]
         [] OTHER ->
              [dirs |-> made,
               fs |-> Written(Opened(f, target, mode), target, mode, text),
               ok |-> TRUE]

AioWrite(d, f, target, payload, mode, end, fault) ==
    LET text == payload \o end
        made == d \cup {target.dir}
    IN CASE fault.kind = "mkdir" -> [dirs |-> d, fs |-> f, ok |-> FALSE]
         [] fault.kind = "open" -> [dirs |-> made, fs |-> f, ok |-> FALSE]
         [] fault.kind = "write" ->
              [dirs |-> made,
               fs |-> Written(Opened(f, target, mode), target, mode,
                              Prefix(text, IF fault.n < Len(text) THEN fault.n ELSE Len(text) - 1)),
               ok |-> FALSE]
         [] OTHER ->
              [dirs |-> made,
               fs |-> Written(Opened(f, target, mode), target, mode, text),
               ok |-> TRUE]

----------------------------------------------------------------------------
(* TextExporter: construction *)

WritesJson(format) == format \in {"json", "all"}
WritesText(format) == format \in {"text", "all"}

NoCall == [op |-> "none", summary |-> <<>>, number |-> 0, title |-> <<>>,
           notes |-> <<>>, padding |-> 0, directory |-> NoDir,
           failed |-> "none", result |-> "ok"]

IdleTask == [pc |-> "idle", op |-> "none", number |-> 0, title |-> <<>>,
             notes |-> <<>>, padding |-> 0, directory |-> NoDir, payload |-> <<>>]

EmptyChapters == [n \in {} |-> [title |-> <<>>, notes |-> <<>>]]

Init ==
    /\ export_format \in Formats
    /\ write_json = WritesJson(export_format)
    /\ write_text = WritesText(export_format)
    /\ data = [chapters |-> EmptyChapters, summary |-> <<>>]
    /\ dirs = {}
    /\ fs = [p \in {} |-> <<>>]
    /\ tasks = [i \in 1..MaxTasks |-> IdleTask]
    /\ last = NoCall
    /\ expChapters = EmptyChapters
    /\ expSummary = <<>>
    /\ seen = {data}
    /\ issued = {}
    /\ nCalls = 0

Config == <<export_format, write_json, write_text>>

----------------------------------------------------------------------------
(* The three operations, each awaited to its end before the next call.     *)
(* A fault is the filesystem error, if any, that a write of the call meets.*)

SeriesSkipsOnlyEmpty(summary) == Falsy(summary)
SeriesSkips(summary) == Falsy(summary) \/ ~write_text

SetChapterKeepFirst(chapters, number, title, notes) ==
    [n \in DOMAIN chapters \cup {number} |->
        IF n \in DOMAIN chapters THEN chapters[n] ELSE [title |-> title, notes |-> notes]]
SetChapterMerging(chapters, number, title, notes) ==
    [n \in DOMAIN chapters \cup {number} |->
        IF n # number THEN chapters[n]
        ELSE [title |-> title,
              notes |-> IF Falsy(notes) /\ n \in DOMAIN chapters
                        THEN chapters[n].notes ELSE notes]]
SetChapter(chapters, number, title, notes) ==
    [n \in DOMAIN chapters \cup {number} |->
        IF n = number THEN [title |-> title, notes |-> notes] ELSE chapters[n]]

ChapterNeverSkipsFiles == FALSE
ChapterSkipsFiles == ~write_text

WritesNotesAlways(notes) == TRUE
WritesNotes(notes) == ~Falsy(notes)

JsonSkips == ~write_json

\* history: the record of the latest add of each chapter number
LastAdded(h, number, title, notes) ==
    (number :> [title |-> title, notes |-> notes]) @@ h

Result(ok) == IF ok THEN "ok" ELSE "error"

Failed(fault, which) == IF fault = NoFault THEN "none" ELSE which

AddSeriesTexts(summary, directory, fault, bound) ==
    /\ nCalls < bound
    /\ IF SeriesSkips(summary)
       THEN /\ fault = NoFault
            /\ UNCHANGED <<data, dirs, fs>>
            /\ last' = [NoCall EXCEPT !.op = "add_series_texts", !.summary = summary,
                                      !.directory = directory]
       ELSE LET w == AioWrite(dirs, fs, SummaryPath(directory), summary,
                              DefaultMode, DefaultEnd, fault)
            IN /\ data' = [data EXCEPT !.summary = summary]
               /\ dirs' = w.dirs
               /\ fs' = w.fs
               /\ last' = [NoCall EXCEPT !.op = "add_series_texts", !.summary = summary,
                                         !.directory = directory,
                                         !.failed = Failed(fault, "first"),
                                         !.result = Result(w.ok)]
    /\ expSummary' = IF Falsy(summary) THEN expSummary ELSE summary
    /\ nCalls' = nCalls + 1
    /\ UNCHANGED <<Config, tasks, expChapters, seen, issued>>

AddChapterDetails(number, title, notes, padding, directory, fault1, fault2, bound) ==
    /\ nCalls < bound
    /\ data' = [data EXCEPT !.chapters = SetChapter(@, number, title, notes)]
    /\ IF ChapterSkipsFiles
       THEN /\ fault1 = NoFault /\ fault2 = NoFault
            /\ UNCHANGED <<dirs, fs>>
            /\ last' = [NoCall EXCEPT !.op = "add_chapter_details", !.number = number,
                                      !.title = title, !.notes = notes,
                                      !.padding = padding, !.directory = directory]
       ELSE LET w1 == AioWrite(dirs, fs, TitlePath(directory, number, padding), title,
                               DefaultMode, DefaultEnd, fault1)
                second == w1.ok /\ WritesNotes(notes)
                w2 == IF second
                      THEN AioWrite(w1.dirs, w1.fs, NotesPath(directory, number, padding),
                                    notes, DefaultMode, DefaultEnd, fault2)
                      ELSE w1
            IN /\ ~second => fault2 = NoFault
               /\ dirs' = w2.dirs
               /\ fs' = w2.fs
               /\ last' = [NoCall EXCEPT !.op = "add_chapter_details", !.number = number,
                                         !.title = title, !.notes = notes,
                                         !.padding = padding, !.directory = directory,
                                         !.failed = IF fault1 # NoFault THEN "first"
                                                    ELSE Failed(fault2, "second"),
                                         !.result = Result(w2.ok)]
    /\ expChapters' = LastAdded(expChapters, number, title, notes)
    /\ nCalls' = nCalls + 1
    /\ UNCHANGED <<Config, tasks, expSummary, seen, issued>>

WriteData(directory, fault, bound) ==
    /\ nCalls < bound
    /\ IF JsonSkips
       THEN /\ fault = NoFault
            /\ UNCHANGED <<dirs, fs>>
            /\ last' = [NoCall EXCEPT !.op = "write_data", !.directory = directory]
       ELSE LET w == AioWrite(dirs, fs, InfoPath(directory), Dumps(data),
                              DefaultMode, <<>>, fault)
            IN /\ dirs' = w.dirs
               /\ fs' = w.fs
               /\ last' = [NoCall EXCEPT !.op = "write_data", !.directory = directory,
                                         !.failed = Failed(fault, "first"),
                                         !.result = Result(w.ok)]
    /\ nCalls' = nCalls + 1
    /\ UNCHANGED <<Config, data, tasks, expChapters, expSummary, seen, issued>>

(* Sequential use, every write succeeding *)

CallSeries ==
    \E s \in Summaries, d \in Directories : AddSeriesTexts(s, d, NoFault, MaxCalls)

CallChapter ==
    \E n \in ChapterNumbers, t \in Titles, x \in NotesTexts, p \in Paddings,
       d \in ChapterDirectories :
          AddChapterDetails(n, t, x, p, d, NoFault, NoFault, MaxCalls)

CallWrite == \E d \in Directories : WriteData(d, NoFault, MaxCalls)

Next == CallSeries \/ CallChapter \/ CallWrite

Spec == Init /\ [][Next]_vars

----------------------------------------------------------------------------
(* Properties of sequential use *)

IsSeries(c) == c.op = "add_series_texts"
IsChapter(c) == c.op = "add_chapter_details"
IsWrite(c) == c.op = "write_data"

Line(s) == s \o <<"\n">>
Exists(f, p) == p \in DOMAIN f
RecordOf(c) == [title |-> c.title, notes |-> c.notes]
TitleOf(c) == TitlePath(c.directory, c.number, c.padding)
NotesOf(c) == NotesPath(c.directory, c.number, c.padding)
JsonChapters(chapters) == { <<Str(n), chapters[n]>> : n \in DOMAIN chapters }
IsChapterFile(p) ==
    \E n \in ChapterNumbers, k \in Paddings :
        \/ p.name = FormatNumber(n, k) \o <<"_title.txt">>
        \/ p.name = FormatNumber(n, k) \o <<"_notes.txt">>

\* C1: for every export format, after add_series_texts with a non-empty
\* summary the aggregate's summary field equals that summary, whether or not
\* text output is enabled.
C1_SummaryStoredForEveryFormat ==
    (IsSeries(last) /\ ~Falsy(last.summary)) => data.summary = last.summary

\* C2: for every JSON-enabled format, after any awaited sequence of adds
\* followed by write_data, parsing info.json yields exactly the chapters last
\* added for each number (keyed by the string form of the number) and exactly
\* the last non-empty summary supplied.
C2_RoundTrip ==
    (IsWrite(last) /\ write_json) =>
        LET doc == fs[InfoPath(last.directory)]
        IN /\ WellFormed(doc)
           /\ LoadsChapters(doc) = JsonChapters(expChapters)
           /\ LoadsSummary(doc) = expSummary

\* C3: with text output enabled, a second add_chapter_details for the same
\* chapter number, padding and directory replaces the record and the files:
\* chapters[number] is the second call's record, the title file holds the
\* second title, and the notes file does not still hold the first call's notes.
C3_SecondAddReplacesRecordAndFiles ==
    [][ ( /\ IsChapter(last) /\ IsChapter(last') /\ write_text
          /\ last'.number = last.number
          /\ last'.padding = last.padding
          /\ last'.directory = last.directory )
        => /\ data'.chapters[last'.number] = RecordOf(last')
           /\ fs'[TitleOf(last')] = Line(last'.title)
           /\ (Exists(fs', NotesOf(last')) /\ last'.notes # last.notes)
                 => fs'[NotesOf(last')] # Line(last.notes) ]_vars

\* C4: for every export format add_chapter_details sets chapters[number] to
\* {title, notes}; title and notes files exist only when the format enables
\* text output (with "json" none is ever created), and a later write_data
\* produces an info.json that contains every added chapter.
C4_RecordAlwaysFilesOnlyForText ==
    /\ IsChapter(last) =>
          /\ last.number \in DOMAIN data.chapters
          /\ data.chapters[last.number] = RecordOf(last)
          /\ write_text <=> Exists(fs, TitleOf(last))
    /\ ~write_text => \A p \in DOMAIN fs : ~IsChapterFile(p)
    /\ (IsWrite(last) /\ write_json) =>
          LET doc == fs[InfoPath(last.directory)]
          IN WellFormed(doc) /\ JsonChapters(expChapters) \subseteq LoadsChapters(doc)

C4_Witness ==
    /\ export_format = "json"
    /\ IsWrite(last)
    /\ DOMAIN expChapters = ChapterNumbers
    /\ Exists(fs, InfoPath(last.directory))
    /\ Cardinality(LoadsChapters(fs[InfoPath(last.directory)])) = Cardinality(ChapterNumbers)

C6_WriteDataIdempotentReadOnly ==
    [][ IsWrite(last') =>
          /\ data' = data
          /\ ~write_json => (fs' = fs /\ dirs' = dirs)
          /\ (write_json /\ IsWrite(last)) =>
                fs'[InfoPath(last'.directory)] = fs[InfoPath(last.directory)] ]_vars

C6_Witness ==
    /\ IsWrite(last) /\ write_json /\ nCalls = 3
    /\ last.directory = "alt"
    /\ DOMAIN data.chapters # {}
    /\ Exists(fs, InfoPath(NoDir)) /\ Exists(fs, InfoPath("alt"))
    /\ fs[InfoPath(NoDir)] = fs[InfoPath("alt")]
    /\ LoadsChapters(fs[InfoPath("alt")]) = JsonChapters(data.chapters)

\* C7: with text output enabled, adding a chapter with empty notes writes the
\* chapter's title file and no notes file, and the aggregate records the
\* chapter with notes equal to the empty string.
C7_EmptyNotesNoNotesFile ==
    [][ (IsChapter(last') /\ write_text /\ last'.notes = <<>>) =>
          /\ fs' = Put(fs, TitleOf(last'), Line(last'.title))
          /\ ~Exists(fs, NotesOf(last')) => ~Exists(fs', NotesOf(last'))
          /\ data'.chapters[last'.number] = [title |-> last'.title, notes |-> <<>>] ]_vars

C7_Witness ==
    /\ IsChapter(last) /\ write_text /\ last.notes = <<>>
    /\ Exists(fs, TitleOf(last))
    /\ ~Exists(fs, NotesOf(last))
    /\ data.chapters[last.number].notes = <<>>

\* C8: there is no terminal state: after write_data, add_series_texts,
\* add_chapter_details and write_data can all still be called, and with JSON
\* enabled the info.json left by every write_data is the serialization of the
\* aggregate as it stands at that call, every add made after earlier
\* write_data calls included, in call order.
C8_NoTerminalStateAndCurrentJson ==
    IsWrite(last) =>
       /\ nCalls < MaxCalls =>
             (ENABLED CallSeries /\ ENABLED CallChapter /\ ENABLED CallWrite)
       /\ write_json =>
             LET doc == fs[InfoPath(last.directory)]
             IN /\ WellFormed(doc)
                /\ LoadsChapters(doc) = JsonChapters(expChapters)
                /\ LoadsSummary(doc) = data.summary
                /\ data.chapters = expChapters

C8_Witness ==
    /\ IsWrite(last) /\ write_json /\ nCalls = 3
    /\ last.directory = "alt"
    /\ Exists(fs, InfoPath(NoDir)) /\ Exists(fs, InfoPath("alt"))
    /\ LoadsChapters(fs[InfoPath(NoDir)]) = {}
    /\ LoadsChapters(fs[InfoPath("alt")]) = JsonChapters(expChapters)
    /\ DOMAIN expChapters # {}

----------------------------------------------------------------------------
(* Sequential use on a filesystem whose operations can fail *)

FailNumbers == {2}
FailPaddings == {0}

FailSeries ==
    \E s \in Summaries, f \in Faults : AddSeriesTexts(s, NoDir, f, MaxFailCalls)

FailChapter ==
    \E n \in FailNumbers, t \in Titles, x \in NotesTexts, p \in FailPaddings,
       f1 \in Faults, f2 \in Faults :
          AddChapterDetails(n, t, x, p, NoDir, f1, f2, MaxFailCalls)

FailWrite == \E f \in Faults : WriteData(NoDir, f, MaxFailCalls)

NextFail == FailSeries \/ FailChapter \/ FailWrite

SpecFail == Init /\ [][NextFail]_vars

\* The file whose write failed, and the text that write was to leave in it
FailedTarget(c) ==
    IF IsSeries(c) THEN SummaryPath(c.directory)
    ELSE IF IsWrite(c) THEN InfoPath(c.directory)
    ELSE IF c.failed = "first" THEN TitleOf(c) ELSE NotesOf(c)

FailedText(c, d) ==
    IF IsSeries(c) THEN Line(c.summary)
    ELSE IF IsWrite(c) THEN Dumps(d)
    ELSE IF c.failed = "first" THEN Line(c.title) ELSE Line(c.notes)

\* C9: a filesystem failure inside add_series_texts, add_chapter_details or
\* write_data reaches the caller as an error, with no retry and no rollback:
\* the aggregate change made before the failing write stays, the files the
\* call had already written stay (the title file when the notes write
\* fails), the failed file is not completed, no other file is touched, and
\* every operation can still be called afterwards.
C9_FailurePropagatesNoRollback ==
    /\ [][ last'.failed # "none" =>
             /\ last'.result = "error"
             /\ IsSeries(last') =>
                   (data'.summary = last'.summary /\ data'.chapters = data.chapters)
             /\ IsChapter(last') =>
                   /\ data'.summary = data.summary
                   /\ DOMAIN data'.chapters = DOMAIN data.chapters \cup {last'.number}
                   /\ data'.chapters[last'.number] = RecordOf(last')
             /\ IsWrite(last') => data' = data
             /\ (IsChapter(last') /\ last'.failed = "second") =>
                   (Exists(fs', TitleOf(last')) /\ fs'[TitleOf(last')] = Line(last'.title))
             /\ LET t == FailedTarget(last')
                IN /\ (Exists(fs', t) /\ fs'[t] = FailedText(last', data'))
                        => (Exists(fs, t) /\ fs[t] = fs'[t])
                   /\ \A p \in DOMAIN fs :
                         (p # t /\ ~(IsChapter(last') /\ p = TitleOf(last')))
                            => (Exists(fs', p) /\ fs'[p] = fs[p]) ]_vars
    /\ [](( last.result = "error" /\ nCalls < MaxFailCalls) =>
             (ENABLED FailSeries /\ ENABLED FailChapter /\ ENABLED FailWrite))

C9_Witness ==
    /\ IsChapter(last) /\ last.failed = "second" /\ last.result = "error"
    /\ nCalls = 2
    /\ data.chapters[last.number] = RecordOf(last)
    /\ fs[TitleOf(last)] = Line(last.title)
    /\ Exists(fs, NotesOf(last))
    /\ fs[NotesOf(last)] # Line(last.notes)

----------------------------------------------------------------------------
(* Concurrent use: calls issued without awaiting run as tasks of one event  *)
(* loop.  A task runs without interruption up to its next suspension point; *)
(* the suspension points are the open and the write/close of _aio_write.    *)
(* At most one write_data is in flight at a time.                           *)

ConcPaddings == {0}
ConcNumbers == {2}
ConcSummaries == {<<>>, <<"s">>}
ConcNotes == {<<>>, <<"a">>}

Idle(i) == tasks[i].pc = "idle"
FreeSlot(i) == Idle(i) /\ \A j \in 1..(i - 1) : ~Idle(j)

TaskTarget(t) ==
    IF IsSeries(t) THEN SummaryPath(t.directory)
    ELSE IF IsWrite(t) THEN InfoPath(t.directory)
    ELSE IF t.pc \in {"open1", "write1"} THEN TitleOf(t) ELSE NotesOf(t)

TaskText(t) ==
    IF IsSeries(t) THEN t.payload \o DefaultEnd
    ELSE IF IsWrite(t) THEN t.payload
    ELSE IF t.pc \in {"open1", "write1"} THEN t.title \o DefaultEnd
    ELSE t.notes \o DefaultEnd

Completed(t) == [NoCall EXCEPT !.op = t.op, !.number = t.number, !.title = t.title,
                               !.notes = t.notes, !.padding = t.padding,
                               !.directory = t.directory]

StartSeries(i, summary, directory) ==
    /\ nCalls < MaxConcCalls
    /\ FreeSlot(i)
    /\ IF SeriesSkips(summary)
       THEN UNCHANGED <<data, dirs, tasks, seen>>
       ELSE /\ data' = [data EXCEPT !.summary = summary]
            /\ dirs' = dirs \cup {ResolveDir(directory)}
            /\ tasks' = [tasks EXCEPT ![i] =
                  [IdleTask EXCEPT !.pc = "open1", !.op = "add_series_texts",
                                   !.directory = directory, !.payload = summary]]
            /\ seen' = seen \cup {data'}
    /\ expSummary' = IF Falsy(summary) THEN expSummary ELSE summary
    /\ nCalls' = nCalls + 1
    /\ UNCHANGED <<Config, fs, last, expChapters, issued>>

StartChapter(i, number, title, notes, padding, directory) ==
    /\ nCalls < MaxConcCalls
    /\ FreeSlot(i)
    /\ data' = [data EXCEPT !.chapters = SetChapter(@, number, title, notes)]
    /\ seen' = seen \cup {data'}
    /\ issued' = issued \cup {<<number, [title |-> title, notes |-> notes]>>}
    /\ expChapters' = LastAdded(expChapters, number, title, notes)
    /\ IF ChapterSkipsFiles
       THEN UNCHANGED <<dirs, tasks>>
       ELSE /\ dirs' = dirs \cup {ResolveDir(directory)}
            /\ tasks' = [tasks EXCEPT ![i] =
                  [IdleTask EXCEPT !.pc = "open1", !.op = "add_chapter_details",
                                   !.number = number, !.title = title, !.notes = notes,
                                   !.padding = padding, !.directory = directory]]
    /\ nCalls' = nCalls + 1
    /\ UNCHANGED <<Config, fs, last, expSummary>>

StartWrite(i, directory) ==
    /\ nCalls < MaxConcCalls
    /\ FreeSlot(i)
    /\ \A j \in 1..MaxTasks : ~IsWrite(tasks[j])
    /\ IF JsonSkips
       THEN UNCHANGED <<dirs, tasks>>
       ELSE /\ dirs' = dirs \cup {ResolveDir(directory)}
            /\ tasks' = [tasks EXCEPT ![i] =
                  [IdleTask EXCEPT !.pc = "open1", !.op = "write_data",
                                   !.directory = directory, !.payload = Dumps(data)]]
    /\ nCalls' = nCalls + 1
    /\ UNCHANGED <<Config, data, fs, last, expChapters, expSummary, seen, issued>>

OpenStep(i) ==
    /\ tasks[i].pc \in {"open1", "open2"}
    /\ fs' = Opened(fs, TaskTarget(tasks[i]), DefaultMode)
    /\ tasks' = [tasks EXCEPT ![i].pc = IF @ = "open1" THEN "write1" ELSE "write2"]
    /\ UNCHANGED <<Config, data, dirs, last, expChapters, expSummary, seen, issued, nCalls>>

WriteStep(i) ==
    /\ tasks[i].pc \in {"write1", "write2"}
    /\ fs' = Written(fs, TaskTarget(tasks[i]), DefaultMode, TaskText(tasks[i]))
    /\ IF IsChapter(tasks[i]) /\ tasks[i].pc = "write1" /\ WritesNotes(tasks[i].notes)
       THEN /\ tasks' = [tasks EXCEPT ![i].pc = "open2"]
            /\ UNCHANGED last
       ELSE /\ tasks' = [tasks EXCEPT ![i] = IdleTask]
            /\ last' = Completed(tasks[i])
    /\ UNCHANGED <<Config, data, dirs, expChapters, expSummary, seen, issued, nCalls>>

NextConc ==
    \/ \E i \in 1..MaxTasks, s \in ConcSummaries : StartSeries(i, s, NoDir)
    \/ \E i \in 1..MaxTasks, n \in ConcNumbers, t \in Titles, x \in ConcNotes,
          p \in ConcPaddings : StartChapter(i, n, t, x, p, NoDir)
    \/ \E i \in 1..MaxTasks : StartWrite(i, NoDir)
    \/ \E i \in 1..MaxTasks : OpenStep(i)
    \/ \E i \in 1..MaxTasks : WriteStep(i)

SpecConc == Init /\ [][NextConc]_vars

\* C10: under any interleaving of concurrently issued add_chapter_details
\* calls, every record in chapters is at all times the {title, notes} pair of
\* one single call, and every info.json that a write_data finishes writing is
\* the serialization of an aggregate state that existed at one instant.
C10_RecordsAndJsonAreAtomic ==
    /\ [](\A n \in DOMAIN data.chapters : <<n, data.chapters[n]>> \in issued)
    /\ [][ \A i \in 1..MaxTasks :
             (IsWrite(tasks[i]) /\ tasks[i].pc = "write1" /\ tasks'[i].pc = "idle") =>
                LET doc == fs'[InfoPath(tasks[i].directory)]
                IN \E a \in seen :
                      /\ WellFormed(doc)
                      /\ LoadsChapters(doc) = JsonChapters(a.chapters)
                      /\ LoadsSummary(doc) = a.summary ]_vars

C10_Witness ==
    \E i, j \in 1..MaxTasks :
        /\ i # j
        /\ IsChapter(tasks[i]) /\ IsChapter(tasks[j])
        /\ tasks[i].pc = "open1" /\ tasks[j].pc \in {"write1", "open2", "write2"}
        /\ tasks[i].number = tasks[j].number
        /\ tasks[i].title # tasks[j].title
        /\ tasks[i].notes # tasks[j].notes
        /\ data.chapters[tasks[i].number] = RecordOf(tasks[i])
        /\ IsWrite(last)
        /\ Exists(fs, InfoPath(NoDir))
        /\ LoadsChapters(fs[InfoPath(NoDir)]) = {<<Str(tasks[j].number), RecordOf(tasks[j])>>}

====
